---- MODULE Spec2Model ----
(***************************************************************************)
(* ManthanAI document chatbot: the Streamlit session of ap.py / app.py,    *)
(* the ingestion dispatcher and parsers of backend/ingestion.py, the       *)
(* retriever factory of backend/embedding.py and the query handler of      *)
(* backend/chat.py.                                                        *)
(*                                                                         *)
(* A Python str is a sequence of atoms (characters, or whole fixed         *)
(* phrases where only concatenation and containment are applied to it).    *)
(***************************************************************************)
EXTENDS Integers, Sequences, FiniteSets, TLC

VARIABLES variant, google_api_key, cohere_api_key, chat_history, retriever,
          search_mode, uploaded_files_data, selected_document, last, call

vars == <<variant, google_api_key, cohere_api_key, chat_history, retriever,
          search_mode, uploaded_files_data, selected_document, last, call>>

session_vars == <<variant, google_api_key, cohere_api_key, chat_history, retriever,
                  search_mode, uploaded_files_data, selected_document, last>>

None == [kind |-> "None"]

\* ------------------------------------------------------------ bounds
MaxFiles == 2
MaxChat == 3

\* ------------------------------------------------------------ str helpers
Whitespace == {" ", "\n", "\t"}

\* str.lower() on one character
LowerChar(c) ==
    CASE c = "H" -> "h" [] c = "I" -> "i" [] c = "E" -> "e" [] c = "L" -> "l"
      [] c = "O" -> "o" [] c = "Y" -> "y" [] c = "P" -> "p" [] c = "D" -> "d"
      [] c = "F" -> "f" [] c = "X" -> "x" [] c = "T" -> "t" [] c = "C" -> "c"
      [] OTHER -> c

lower(s) == [i \in 1..Len(s) |-> LowerChar(s[i])]

RECURSIVE lstrip(_)
lstrip(s) == IF s # <<>> /\ Head(s) \in Whitespace THEN lstrip(Tail(s)) ELSE s

RECURSIVE rstrip(_)
rstrip(s) ==
    IF s # <<>> /\ s[Len(s)] \in Whitespace THEN rstrip(SubSeq(s, 1, Len(s) - 1)) ELSE s

strip(s) == rstrip(lstrip(s))

\* sub in s
Contains(s, sub) ==
    \E i \in 0..(Len(s) - Len(sub)) : SubSeq(s, i + 1, i + Len(sub)) = sub

RECURSIVE Flatten(_)
Flatten(ss) == IF ss = <<>> THEN <<>> ELSE Head(ss) \o Flatten(Tail(ss))

\* sep.join(parts)
RECURSIVE Join(_, _)
Join(sep, parts) ==
    IF parts = <<>> THEN <<>>
    ELSE IF Len(parts) = 1 THEN parts[1]
    ELSE parts[1] \o sep \o Join(sep, Tail(parts))

\* ------------------------------------------------------------ uploaded files
(* An uploaded file: its name and what its bytes hold.  parts are the pages *)
(* of a PDF (one text each), the paragraphs of a DOCX (one text each) or    *)
(* the slides of a PPTX (the shapes of each).  corruptAt = 0: the bytes     *)
(* parse; corruptAt = n: the parsing library raises when it reaches part n  *)
(* (n = 1 is also a file that cannot be opened at all).                     *)
UFile(name, parts, corruptAt) ==
    [kind |-> "file", name |-> name, parts |-> parts, corruptAt |-> corruptAt]

\* a PPTX shape with a text attribute, and one without (hasattr(shape, "text"))
Shape(text) == [has_text |-> TRUE, text |-> text]

NoTextShape == [has_text |-> FALSE]

\* os.path.splitext(filename)[1]
RECURSIVE LastDot(_, _)
LastDot(p, i) == IF i = 0 THEN 0 ELSE IF p[i] = "." THEN i ELSE LastDot(p, i - 1)

splitext_ext(p) ==
    LET d == LastDot(p, Len(p)) IN
    IF d = 0 \/ (\A i \in 1..d : p[i] = ".") THEN <<>> ELSE SubSeq(p, d, Len(p))

Document(page_content, metadata) == [page_content |-> page_content, metadata |-> metadata]

\* the loop of _parse_pdf numbering a page by the units kept so far
RECURSIVE parse_pdf_loop_renumbering(_, _, _)
parse_pdf_loop_renumbering(file, page_num, documents) ==
    IF page_num >= Len(file.parts) THEN documents
    ELSE IF file.corruptAt = page_num + 1 THEN documents
    ELSE LET text == file.parts[page_num + 1][1].text IN
         parse_pdf_loop_renumbering(file, page_num + 1,
            IF text # <<>>
            THEN Append(documents,
                        Document(text, [source |-> file.name, page |-> Len(documents) + 1]))
            ELSE documents)

\* ingestion.py _parse_pdf: the for loop, left by the exception handler at a corrupt page
RECURSIVE parse_pdf_loop(_, _, _)
parse_pdf_loop(file, page_num, documents) ==
    IF page_num >= Len(file.parts) THEN documents
    ELSE IF file.corruptAt = page_num + 1 THEN documents
    ELSE LET text == file.parts[page_num + 1][1].text IN
         parse_pdf_loop(file, page_num + 1,
            IF text # <<>>
            THEN Append(documents,
                        Document(text, [source |-> file.name, page |-> page_num + 1]))
            ELSE documents)

parse_pdf(file) == parse_pdf_loop(file, 0, <<>>)

\* ingestion.py _parse_docx: the text is joined in one expression, then appended
parse_docx(file) ==
    IF file.corruptAt # 0 THEN <<>>
    ELSE LET paras == [i \in 1..Len(file.parts) |-> file.parts[i][1].text]
             full_text == Join(<<"\n">>, SelectSeq(paras, LAMBDA t : t # <<>>))
         IN IF full_text # <<>>
            THEN <<Document(full_text, [source |-> file.name])>>
            ELSE <<>>

RECURSIVE slide_text_of(_)
slide_text_of(shapes) ==
    IF shapes = <<>> THEN <<>>
    ELSE (IF Head(shapes).has_text THEN Head(shapes).text \o <<"\n">> ELSE <<>>)
         \o slide_text_of(Tail(shapes))

\* ingestion.py _parse_pptx
RECURSIVE parse_pptx_loop(_, _, _)
parse_pptx_loop(file, slide_num, documents) ==
    IF slide_num >= Len(file.parts) THEN documents
    ELSE IF file.corruptAt = slide_num + 1 THEN documents
    ELSE LET slide_text == slide_text_of(file.parts[slide_num + 1]) IN
         parse_pptx_loop(file, slide_num + 1,
            IF strip(slide_text) # <<>>
            THEN Append(documents,
                        Document(slide_text, [source |-> file.name, slide |-> slide_num + 1]))
            ELSE documents)

parse_pptx(file) == parse_pptx_loop(file, 0, <<>>)

\* ingestion.py process_uploaded_files: one pass of the dispatch loop
ParseOne(file_stream) ==
    IF file_stream = None THEN <<>>
    ELSE LET file_extension == lower(splitext_ext(file_stream.name)) IN
         IF file_extension = <<".", "p", "d", "f">> THEN parse_pdf(file_stream)
         ELSE IF file_extension = <<".", "d", "o", "c", "x">> THEN parse_docx(file_stream)
         ELSE IF file_extension = <<".", "p", "p", "t", "x">> THEN parse_pptx(file_stream)
         ELSE <<>>

RECURSIVE process_uploaded_files(_)
process_uploaded_files(uploaded_files) ==
    IF uploaded_files = <<>> THEN <<>>
    ELSE ParseOne(Head(uploaded_files)) \o process_uploaded_files(Tail(uploaded_files))

\* ------------------------------------------------------------ chunking
chunk_size == 1000

chunk_overlap == 200

\* the splitter's default separators, tried in this order
Separators == << <<"\n", "\n">>, <<"\n">>, <<" ">>, <<>> >>

RECURSIVE FindFirst(_, _, _)
FindFirst(text, sep, i) ==
    IF i + Len(sep) - 1 > Len(text) THEN 0
    ELSE IF SubSeq(text, i, i + Len(sep) - 1) = sep THEN i
    ELSE FindFirst(text, sep, i + 1)

\* re.split on a literal separator: the pieces between its leftmost matches
RECURSIVE SplitPieces(_, _)
SplitPieces(text, sep) ==
    LET i == FindFirst(text, sep, 1) IN
    IF i = 0 THEN <<text>>
    ELSE <<SubSeq(text, 1, i - 1)>>
         \o SplitPieces(SubSeq(text, i + Len(sep), Len(text)), sep)

\* the splitter's split with keep_separator: each separator opens the piece after it
split_text_with_regex(text, sep) ==
    LET pieces == IF sep = <<>>
                  THEN [i \in 1..Len(text) |-> <<text[i]>>]
                  ELSE LET ps == SplitPieces(text, sep) IN
                       [i \in 1..Len(ps) |-> IF i = 1 THEN ps[1] ELSE sep \o ps[i]]
    IN SelectSeq(pieces, LAMBDA x : x # <<>>)

\* the splitter's _join_docs with an empty separator: None (here <<>>) when blank
join_docs(current_doc) == strip(Flatten(current_doc))

RECURSIVE DropForOverlap(_, _, _, _, _)
DropForOverlap(current_doc, total, len, size, overlap) ==
    IF total > overlap \/ (total + len > size /\ total > 0)
    THEN DropForOverlap(Tail(current_doc), total - Len(Head(current_doc)), len, size, overlap)
    ELSE <<current_doc, total>>

\* _merge_splits without the flush of what is left after the last split
RECURSIVE merge_splits_no_tail(_, _, _, _, _, _)
merge_splits_no_tail(splits, docs, current_doc, total, size, overlap) ==
    IF splits = <<>> THEN docs
    ELSE LET d == Head(splits)
             flush == total + Len(d) > size /\ current_doc # <<>>
             docs1 == IF flush /\ join_docs(current_doc) # <<>>
                      THEN Append(docs, join_docs(current_doc)) ELSE docs
             kept == IF flush THEN DropForOverlap(current_doc, total, Len(d), size, overlap)
                     ELSE <<current_doc, total>>
         IN merge_splits_no_tail(Tail(splits), docs1, Append(kept[1], d),
                                 kept[2] + Len(d), size, overlap)

\* the splitter's _merge_splits
RECURSIVE merge_splits(_, _, _, _, _, _)
merge_splits(splits, docs, current_doc, total, size, overlap) ==
    IF splits = <<>>
    THEN IF join_docs(current_doc) # <<>> THEN Append(docs, join_docs(current_doc)) ELSE docs
    ELSE LET d == Head(splits)
             flush == total + Len(d) > size /\ current_doc # <<>>
             docs1 == IF flush /\ join_docs(current_doc) # <<>>
                      THEN Append(docs, join_docs(current_doc)) ELSE docs
             kept == IF flush THEN DropForOverlap(current_doc, total, Len(d), size, overlap)
                     ELSE <<current_doc, total>>
         IN merge_splits(Tail(splits), docs1, Append(kept[1], d), kept[2] + Len(d),
                         size, overlap)

\* the first separator that is "" or occurs in the text
RECURSIVE PickSeparator(_, _, _)
PickSeparator(text, separators, i) ==
    IF i >= Len(separators) THEN Len(separators)
    ELSE IF separators[i] = <<>> \/ FindFirst(text, separators[i], 1) # 0 THEN i
    ELSE PickSeparator(text, separators, i + 1)

\* the splitter's _split_text
RECURSIVE split_text(_, _, _, _)
RECURSIVE split_text_loop(_, _, _, _, _, _)
split_text_loop(splits, new_separators, good_splits, final_chunks, size, overlap) ==
    IF splits = <<>>
    THEN IF good_splits # <<>>
         THEN final_chunks \o merge_splits(good_splits, <<>>, <<>>, 0, size, overlap)
         ELSE final_chunks
    ELSE LET s == Head(splits) IN
         IF Len(s) < size
         THEN split_text_loop(Tail(splits), new_separators, Append(good_splits, s),
                              final_chunks, size, overlap)
         ELSE LET flushed == IF good_splits # <<>>
                             THEN final_chunks
                                  \o merge_splits(good_splits, <<>>, <<>>, 0, size, overlap)
                             ELSE final_chunks
                  more == IF new_separators = <<>> THEN <<s>>
                          ELSE split_text(s, new_separators, size, overlap)
              IN split_text_loop(Tail(splits), new_separators, <<>>, flushed \o more,
                                 size, overlap)

split_text(text, separators, size, overlap) ==
    LET i == PickSeparator(text, separators, 1)
        separator == separators[i]
        new_separators == IF separator = <<>> THEN <<>>
                          ELSE SubSeq(separators, i + 1, Len(separators))
    IN split_text_loop(split_text_with_regex(text, separator), new_separators,
                       <<>>, <<>>, size, overlap)

\* a split of the documents' texts joined into one, under the first one's metadata
split_documents_joined(documents, size, overlap) ==
    IF documents = <<>> THEN <<>>
    ELSE LET joined == Flatten([i \in 1..Len(documents) |-> documents[i].page_content])
             texts == split_text(joined, Separators, size, overlap)
         IN [i \in 1..Len(texts) |-> Document(texts[i], documents[1].metadata)]

\* the splitter's split_documents: every chunk keeps its document's metadata
RECURSIVE split_documents(_, _, _)
split_documents(documents, size, overlap) ==
    IF documents = <<>> THEN <<>>
    ELSE LET doc == Head(documents)
             texts == split_text(doc.page_content, Separators, size, overlap)
         IN [i \in 1..Len(texts) |-> Document(texts[i], doc.metadata)]
            \o split_documents(Tail(documents), size, overlap)

\* ingestion.py get_text_chunks
get_text_chunks(documents) == split_documents(documents, chunk_size, chunk_overlap)

\* ------------------------------------------------------------ retriever
\* a raised exception, and a returned value, with the capabilities touched on the way
Raised(exc, touched) == [kind |-> "raised", exc |-> exc, touched |-> touched]

Returned(value, touched) == [kind |-> "returned", value |-> value, touched |-> touched]

default_k == 10

default_rerank_top_n == 4

\* a key that is None or "" is falsy
Truthy(key) == key # <<>>

BuildSteps ==
    <<"GoogleGenerativeAIEmbeddings", "BM25Retriever.from_documents", "FAISS.from_documents",
      "EnsembleRetriever", "CohereRerank", "ContextualCompressionRetriever">>

\* create_hybrid_retriever without its two input checks
create_hybrid_retriever_unchecked(docs, g_key, c_key, k, rerank_top_n, embedding) ==
    IF embedding # "ok" THEN Raised(embedding, SubSeq(BuildSteps, 1, 3))
    ELSE Returned([kind |-> "retriever", docs |-> docs, k |-> k,
                   rerank_top_n |-> rerank_top_n,
                   google_api_key |-> g_key, cohere_api_key |-> c_key],
                  BuildSteps)

\* create_hybrid_retriever handing k to the re-ranker as its top_n
create_hybrid_retriever_top_n_is_k(docs, g_key, c_key, k, rerank_top_n, embedding) ==
    IF docs = <<>> THEN Raised("ValueError", <<>>)
    ELSE IF ~Truthy(g_key) \/ ~Truthy(c_key) THEN Raised("ValueError", <<>>)
    ELSE IF embedding # "ok" THEN Raised(embedding, SubSeq(BuildSteps, 1, 3))
    ELSE Returned([kind |-> "retriever", docs |-> docs, k |-> k,
                   rerank_top_n |-> k,
                   google_api_key |-> g_key, cohere_api_key |-> c_key],
                  BuildSteps)

\* embedding.py create_hybrid_retriever; embedding is what the embedding capability
\* does when FAISS.from_documents embeds the chunks: "ok", or the exception it raises
create_hybrid_retriever(docs, g_key, c_key, k, rerank_top_n, embedding) ==
    IF docs = <<>> THEN Raised("ValueError", <<>>)
    ELSE IF ~Truthy(g_key) \/ ~Truthy(c_key) THEN Raised("ValueError", <<>>)
    ELSE IF embedding # "ok" THEN Raised(embedding, SubSeq(BuildSteps, 1, 3))
    ELSE Returned([kind |-> "retriever", docs |-> docs, k |-> k,
                   rerank_top_n |-> rerank_top_n,
                   google_api_key |-> g_key, cohere_api_key |-> c_key],
                  BuildSteps)

\* the sequences of distinct indices of 1..n of length at most m
RECURSIVE Picks(_, _)
Picks(n, m) ==
    IF m = 0 THEN {<<>>}
    ELSE LET shorter == Picks(n, m - 1) IN
         shorter \cup {Append(p, i) : p \in {q \in shorter : Len(q) = m - 1},
                                      i \in 1..n}

DistinctPicks(n, m) ==
    {p \in Picks(n, m) : \A i, j \in 1..Len(p) : i # j => p[i] # p[j]}

Min(a, b) == IF a < b THEN a ELSE b

\* what a sub-index can return for a query: the places of its k best chunks (all of
\* them when it holds fewer), whichever they are
TopK(n, k) == {best \in SUBSET (1..n) : Cardinality(best) = Min(k, n)}

\* the ensemble's candidates: the chunks either sub-index returned, each once
Fused(r, lexical, semantic) ==
    LET places == SelectSeq([i \in 1..Len(r.docs) |-> i],
                            LAMBDA i : i \in lexical \cup semantic)
    IN [i \in 1..Len(places) |-> r.docs[places[i]]]

\* the re-ranker's choice of at most top_n of the candidates, in its order
Reranked(r, candidates) ==
    {[i \in 1..Len(p) |-> candidates[p[i]]] :
        p \in DistinctPicks(Len(candidates), Min(r.rerank_top_n, Len(candidates)))}

\* what a query of the compression retriever can return
RetrievedDocs(r) ==
    UNION {Reranked(r, Fused(r, lexical, semantic)) :
              lexical \in TopK(Len(r.docs), r.k), semantic \in TopK(Len(r.docs), r.k)}

\* ------------------------------------------------------------ chat.py
\* the phrase PDF_ONLY_PROMPT_TEMPLATE asks the model for when the context has no answer
RefusalPhrase ==
    <<"I'm sorry, I ", "couldn't find this information", " in the uploaded documents.">>

\* the part of it handle_user_query looks for
RefusalMarker == <<"couldn't find this information">>

NotInitializedText ==
    <<"The knowledge base is not initialized. Please upload and process your documents.">>

Disclaimer ==
    <<"\n\n---\n",
      "*Disclaimer: This answer was generated using general knowledge as the information was not found in the uploaded documents.*">>

\* what a call of the generation capability does: a text, or the exception it raises
Said(text) == [kind |-> "said", text |-> text]

Failed(exc) == [kind |-> "failed", exc |-> exc]

\* what handle_user_query / get_rag_response hands back, with the capability calls made
Answer(output_text, source_documents, retrievals, generations) ==
    [kind |-> "answer", output_text |-> output_text, source_documents |-> source_documents,
     retrievals |-> retrievals, generations |-> generations]

Exception(exc, retrievals, generations) ==
    [kind |-> "exception", exc |-> exc, retrievals |-> retrievals,
     generations |-> generations]

\* handle_user_query comparing the answer with the whole refusal phrase
handle_user_query_exact_phrase(user_question, vector_store, searched, pdf_out, general_out, answer_mode) ==
    IF vector_store = None THEN Answer(NotInitializedText, <<>>, 0, 0)
    ELSE IF searched.kind = "failed" THEN Exception(searched.exc, 1, 0)
    ELSE IF pdf_out.kind = "failed" THEN Exception(pdf_out.exc, 1, 1)
    ELSE IF pdf_out.text = RefusalPhrase
         THEN IF answer_mode = "Hybrid"
              THEN IF general_out.kind = "failed"
                   THEN Exception(general_out.exc, 1, 2)
                   ELSE Answer(general_out.text \o Disclaimer, <<>>, 1, 2)
              ELSE Answer(pdf_out.text, <<>>, 1, 1)
    ELSE Answer(pdf_out.text, searched.docs, 1, 1)

\* handle_user_query attaching the retrieved chunks to the general-knowledge answer
handle_user_query_keeps_sources(user_question, vector_store, searched, pdf_out, general_out, answer_mode) ==
    IF vector_store = None THEN Answer(NotInitializedText, <<>>, 0, 0)
    ELSE IF searched.kind = "failed" THEN Exception(searched.exc, 1, 0)
    ELSE IF pdf_out.kind = "failed" THEN Exception(pdf_out.exc, 1, 1)
    ELSE IF Contains(pdf_out.text, RefusalMarker)
         THEN IF answer_mode = "Hybrid"
              THEN IF general_out.kind = "failed"
                   THEN Exception(general_out.exc, 1, 2)
                   ELSE Answer(general_out.text \o Disclaimer, searched.docs, 1, 2)
              ELSE Answer(pdf_out.text, <<>>, 1, 1)
    ELSE Answer(pdf_out.text, searched.docs, 1, 1)

\* chat.py handle_user_query.  vector_store: what load_vector_store returned (None or
\* a store); searched: what similarity_search did; pdf_out: what the PDF-only chain
\* did; general_out: what the general-knowledge model did if it is asked
handle_user_query(user_question, vector_store, searched, pdf_out, general_out, answer_mode) ==
    IF vector_store = None THEN Answer(NotInitializedText, <<>>, 0, 0)
    ELSE IF searched.kind = "failed" THEN Exception(searched.exc, 1, 0)
    ELSE IF pdf_out.kind = "failed" THEN Exception(pdf_out.exc, 1, 1)
    ELSE LET retrieved_docs == searched.docs
             pdf_answer == pdf_out.text
             source_documents == retrieved_docs
         IN IF Contains(pdf_answer, RefusalMarker)
            THEN IF answer_mode = "Hybrid"
                 THEN IF general_out.kind = "failed"
                      THEN Exception(general_out.exc, 1, 2)
                      ELSE Answer(general_out.text \o Disclaimer, <<>>, 1, 2)
                 ELSE Answer(pdf_answer, <<>>, 1, 1)
            ELSE Answer(pdf_answer, source_documents, 1, 1)

\* ------------------------------------------------------------ the Streamlit session
WelcomeText ==
    <<"Hello! I am ManthanAI. Ask me anything or upload documents for analysis.">>

GreetingReply == <<"Hello! How can I help you today?">>

WarningMessage ==
    <<"The advanced AI model is busy due to high traffic. ",
      "Here is a response based only on your documents:\n\n---\n\n">>

HighTrafficText ==
    <<"I'm sorry, the AI is experiencing high traffic right now. Please try again in a moment.">>

NoTextExtracted == <<"No text extracted. Please check your files.">>

SelectPlaceholder == <<"--- Select a document ---">>

greetings == {<<"h", "i">>, <<"h", "e", "l", "l", "o">>, <<"h", "e", "y">>}

Msg(role, content) == [role |-> role, content |-> content]

MsgWithSources(role, content, sources) ==
    [role |-> role, content |-> content, sources |-> sources]

\* initialize_session_state: the keys it sets when they are absent
InitialChat == <<Msg("ai", WelcomeText)>>

\* main stops before the sidebar and the chat input are drawn when a key is missing
KeysOK == Truthy(google_api_key) /\ Truthy(cohere_api_key)

\* {file.name: file.getvalue() for file in uploaded_files}: a dict keeps the place of
\* a name's first insertion and the value of its last
RECURSIVE DictPut(_, _, _)
DictPut(d, key, value) ==
    IF d = <<>> THEN <<[key |-> key, value |-> value]>>
    ELSE IF Head(d).key = key THEN <<[key |-> key, value |-> value]>> \o Tail(d)
    ELSE <<Head(d)>> \o DictPut(Tail(d), key, value)

RECURSIVE DictOfFiles(_, _)
DictOfFiles(uploaded_files, d) ==
    IF uploaded_files = <<>> THEN d
    ELSE DictOfFiles(Tail(uploaded_files),
                     DictPut(d, Head(uploaded_files).name, Head(uploaded_files)))

DictKeys(d) == {d[i].key : i \in 1..Len(d)}

\* what handle_file_upload leaves behind
Uploaded(files_data, retr, outcome, shown) ==
    [uploaded_files_data |-> files_data, retriever |-> retr, outcome |-> outcome,
     shown |-> shown]

\* handle_file_upload whose exception handler leaves the session as it was
handle_file_upload_keeps_on_error(uploaded_files, files_data, retr, g_key, c_key, embedding) ==
    IF uploaded_files = <<>> THEN Uploaded(files_data, retr, "ignored", <<>>)
    ELSE LET new_data == DictOfFiles(uploaded_files, <<>>)
             text_chunks == get_text_chunks(process_uploaded_files(uploaded_files))
         IN IF text_chunks = <<>>
            THEN Uploaded(new_data, retr, "no_text", NoTextExtracted)
            ELSE LET built == create_hybrid_retriever(text_chunks, g_key, c_key, default_k,
                                                      default_rerank_top_n, embedding)
                 IN IF built.kind = "returned"
                    THEN Uploaded(new_data, built.value, "installed", <<>>)
                    ELSE Uploaded(new_data, retr, "error",
                                  <<"Processing error: ", built.exc>>)

\* ap.py / app.py handle_file_upload (the two are the same)
handle_file_upload(uploaded_files, files_data, retr, g_key, c_key, embedding) ==
    IF uploaded_files = <<>> THEN Uploaded(files_data, retr, "ignored", <<>>)
    ELSE LET new_data == DictOfFiles(uploaded_files, <<>>)
             raw_docs == process_uploaded_files(uploaded_files)
             text_chunks == get_text_chunks(raw_docs)
         IN IF text_chunks = <<>>
            THEN Uploaded(new_data, retr, "no_text", NoTextExtracted)
            ELSE LET built == create_hybrid_retriever(text_chunks, g_key, c_key, default_k,
                                                      default_rerank_top_n, embedding)
                 IN IF built.kind = "returned"
                    THEN Uploaded(new_data, built.value, "installed", <<>>)
                    ELSE Uploaded(<<>>, None, "error",
                                  <<"Processing error: ", built.exc>>)

\* backend.chat get_rag_response, which ap.py and app.py import.  searched: what the
\* retriever did with the question; gen_out: what the generation capability did
get_rag_response(user_input, retr, api_key, mode, searched, gen_out) ==
    IF searched.kind = "failed" THEN Exception(searched.exc, 1, 0)
    ELSE IF gen_out.kind = "failed" THEN Exception(gen_out.exc, 1, 1)
    ELSE IF mode = "PDF-Only" /\ gen_out.text = RefusalPhrase
         THEN Answer(gen_out.text, <<>>, 1, 1)
    ELSE Answer(gen_out.text, searched.docs, 1, 1)

\* what one pass of main over a chat input did: the messages appended after the
\* user's, the modes get_rag_response was called in, the exception that left main,
\* what st.error showed, and the capability calls made
Handled(appended, rag_modes, escaped, shown, retrievals, generations) ==
    [appended |-> appended, rag_modes |-> rag_modes, escaped |-> escaped,
     shown |-> shown, retrievals |-> retrievals, generations |-> generations]

\* ap.py main, the greeting branch (app.py: the same)
ask_greeting == Handled(<<Msg("ai", GreetingReply)>>, <<>>, "none", <<>>, 0, 0)

\* the branch with a retriever, retrying a second time when the retry is overloaded
ask_documents_ap_retries_again(user_input, retr, api_key, mode, searched1, gen1, searched2, gen2) ==
    LET response == get_rag_response(user_input, retr, api_key, mode, searched1, gen1) IN
    IF response.kind = "answer"
    THEN Handled(<<Msg("ai", response.output_text)>>, <<mode>>, "none", <<>>,
                 response.retrievals, response.generations)
    ELSE IF response.exc = "ResourceExhausted"
    THEN LET fallback_response ==
                 get_rag_response(user_input, retr, api_key, "PDF-Only", searched2, gen2)
         IN IF fallback_response.kind = "answer"
            THEN Handled(<<Msg("ai", WarningMessage \o fallback_response.output_text)>>,
                         <<mode, "PDF-Only">>, "none", <<>>,
                         response.retrievals + fallback_response.retrievals,
                         response.generations + fallback_response.generations)
            ELSE Handled(<<>>, <<mode, "PDF-Only", "PDF-Only">>, fallback_response.exc, <<>>,
                         response.retrievals + 2 * fallback_response.retrievals,
                         response.generations + 2 * fallback_response.generations)
    ELSE Handled(<<>>, <<mode>>, response.exc, <<>>,
                 response.retrievals, response.generations)

\* ap.py main, the branch with a retriever: try, except ResourceExhausted, append
ask_documents_ap(user_input, retr, api_key, mode, searched1, gen1, searched2, gen2) ==
    LET response == get_rag_response(user_input, retr, api_key, mode, searched1, gen1) IN
    IF response.kind = "answer"
    THEN Handled(<<Msg("ai", response.output_text)>>, <<mode>>, "none", <<>>,
                 response.retrievals, response.generations)
    ELSE IF response.exc = "ResourceExhausted"
    THEN LET fallback_response ==
                 get_rag_response(user_input, retr, api_key, "PDF-Only", searched2, gen2)
         IN IF fallback_response.kind = "answer"
            THEN Handled(<<Msg("ai", WarningMessage \o fallback_response.output_text)>>,
                         <<mode, "PDF-Only">>, "none", <<>>,
                         response.retrievals + fallback_response.retrievals,
                         response.generations + fallback_response.generations)
            ELSE Handled(<<>>, <<mode, "PDF-Only">>, fallback_response.exc, <<>>,
                         response.retrievals + fallback_response.retrievals,
                         response.generations + fallback_response.generations)
    ELSE Handled(<<>>, <<mode>>, response.exc, <<>>,
                 response.retrievals, response.generations)

\* app.py main, the branch with a retriever: no handler around the call
ask_documents_app(user_input, retr, api_key, mode, searched1, gen1) ==
    LET response == get_rag_response(user_input, retr, api_key, mode, searched1, gen1) IN
    IF response.kind = "answer"
    THEN Handled(<<MsgWithSources("ai", response.output_text, response.source_documents)>>,
                 <<mode>>, "none", <<>>, response.retrievals, response.generations)
    ELSE Handled(<<>>, <<mode>>, response.exc, <<>>,
                 response.retrievals, response.generations)

\* a branch without a retriever that answers with the guidance and asks no model
ask_general_guidance(user_input, gen_out) ==
    Handled(<<Msg("ai", NotInitializedText)>>, <<>>, "none", <<>>, 0, 0)

\* ap.py main, the branch without a retriever: the question goes to gemini-pro
ask_general_ap(user_input, gen_out) ==
    IF gen_out.kind = "said"
    THEN Handled(<<Msg("ai", gen_out.text)>>, <<>>, "none", <<>>, 0, 1)
    ELSE IF gen_out.exc = "ResourceExhausted"
    THEN Handled(<<Msg("ai", HighTrafficText)>>, <<>>, "none", <<>>, 0, 1)
    ELSE Handled(<<>>, <<>>, "none", <<"Could not get a response: ", gen_out.exc>>, 0, 1)

\* app.py main, the branch without a retriever
ask_general_app(user_input, gen_out) ==
    IF gen_out.kind = "said"
    THEN Handled(<<Msg("ai", gen_out.text)>>, <<>>, "none", <<>>, 0, 1)
    ELSE Handled(<<>>, <<>>, "none", <<"Could not get a response: ", gen_out.exc>>, 0, 1)

\* `if st.session_state.retriever:`
HasRetriever(retr) == retr # None

\* the greeting test without lower()
IsGreetingInput_cased(user_input) == strip(user_input) \in greetings

\* user_input.lower().strip() in greetings
IsGreetingInput(user_input) == strip(lower(user_input)) \in greetings

\* ------------------------------------------------------------ inputs
\* a PDF page or a DOCX paragraph: one text
Page(text) == <<[has_text |-> TRUE, text |-> text]>>

N_a_pdf == <<"a", ".", "p", "d", "f">>

N_b_pdf == <<"b", ".", "p", "d", "f">>

N_c_PDF == <<"c", ".", "P", "D", "F">>

N_d_docx == <<"d", ".", "d", "o", "c", "x">>

N_e_pptx == <<"e", ".", "p", "p", "t", "x">>

N_f_txt == <<"f", ".", "t", "x", "t">>

N_dot_pdf == <<".", "p", "d", "f">>

\* two pages of text
F_pdf == UFile(N_a_pdf, <<Page(<<"a", " ", "b">>), Page(<<"c">>)>>, 0)

\* the same pages, the second of which cannot be read
F_pdf_corrupt2 == UFile(N_b_pdf, <<Page(<<"a", " ", "b">>), Page(<<"c">>)>>, 2)

\* a PDF that cannot be opened
F_pdf_corrupt1 == UFile(N_b_pdf, <<Page(<<"a">>)>>, 1)

\* an empty first page, an upper-case extension
F_pdf_upper == UFile(N_c_PDF, <<Page(<<>>), Page(<<"d", "\n">>)>>, 0)

\* a scanned PDF: its only page holds white space
F_pdf_blank == UFile(N_b_pdf, <<Page(<<" ">>)>>, 0)

F_docx == UFile(N_d_docx, <<Page(<<"a">>), Page(<<>>), Page(<<"b">>)>>, 0)

F_docx_corrupt == UFile(N_d_docx, <<Page(<<"a">>)>>, 1)

F_pptx ==
    UFile(N_e_pptx, << <<NoTextShape>>, <<Shape(<<"a">>), NoTextShape, Shape(<<"b">>)>>,
                       <<Shape(<<" ">>)>> >>, 0)

F_pptx_corrupt2 == UFile(N_e_pptx, << <<Shape(<<"a">>)>>, <<Shape(<<"b">>)>> >>, 2)

F_txt == UFile(N_f_txt, <<Page(<<"a">>)>>, 0)

F_dotfile == UFile(N_dot_pdf, <<Page(<<"a">>)>>, 0)

Files ==
    {F_pdf, F_pdf_corrupt2, F_pdf_corrupt1, F_pdf_upper, F_pdf_blank, F_docx,
     F_docx_corrupt, F_pptx, F_pptx_corrupt2, F_txt, F_dotfile, None}

RECURSIVE SeqsUpTo(_, _)
SeqsUpTo(S, n) ==
    IF n = 0 THEN {<<>>}
    ELSE LET shorter == SeqsUpTo(S, n - 1) IN
         shorter \cup {Append(q, x) : q \in {r \in shorter : Len(r) = n - 1}, x \in S}

FileLists == SeqsUpTo(Files, MaxFiles)

Keys == {<<>>, <<"k">>}

Chunk1 == Document(<<"a", " ", "b">>, [source |-> N_a_pdf, page |-> 1])

Chunk2 == Document(<<"c">>, [source |-> N_a_pdf, page |-> 2])

Chunk3 == Document(<<"a", "\n", "b">>, [source |-> N_d_docx])

Chunk4 == Document(<<"a", "\n", "b">>, [source |-> N_e_pptx, slide |-> 2])

Chunk5 == Document(<<"d">>, [source |-> N_c_PDF, page |-> 2])

ChunkLists ==
    {<<>>, <<Chunk1>>, <<Chunk1, Chunk2>>, <<Chunk3, Chunk1, Chunk2>>,
     <<Chunk1, Chunk2, Chunk3, Chunk4, Chunk5>>}

\* the k and rerank_top_n a caller can pass
KChoices == {1, 2, default_k}

TopNChoices == {2, default_rerank_top_n}

EmbeddingOutcomes == {"ok", "ResourceExhausted", "InvalidCredentials"}

Q_why == <<"w", "h", "y">>

Grounded == <<"Total revenue: $4.2M">>

\* the model words its refusal differently, keeping the marker
Reworded == <<"Unfortunately, I ", "couldn't find this information", ".">>

\* a refusal without the marker
NearMiss == <<"I could not find this information.">>

General == <<"Paris.">>

GenerationOutcomes ==
    {Said(Grounded), Said(RefusalPhrase), Said(Reworded), Said(NearMiss),
     Failed("ResourceExhausted"), Failed("InternalServerError")}

GeneralOutcomes == {Said(General), Failed("ResourceExhausted")}

Modes == {"Hybrid", "PDF-Only"}

\* ------------------------------------------------------------ the functions, called alone
FnInit ==
    /\ call = [op |-> "none"]
    /\ variant = "ap"
    /\ google_api_key = <<"k">>
    /\ cohere_api_key = <<"k">>
    /\ chat_history = <<>>
    /\ retriever = None
    /\ search_mode = "Hybrid"
    /\ uploaded_files_data = <<>>
    /\ selected_document = None
    /\ last = [op |-> "none"]

CallProcessUploadedFiles ==
    /\ call.op = "none"
    /\ \E fs \in FileLists :
          call' = [op |-> "process_uploaded_files", uploaded_files |-> fs,
                   result |-> process_uploaded_files(fs)]
    /\ UNCHANGED session_vars

CallCreateHybridRetriever ==
    /\ call.op = "none"
    /\ \E docs \in ChunkLists, g \in Keys, c \in Keys, e \in EmbeddingOutcomes,
          k \in KChoices, rerank_top_n \in TopNChoices :
          call' = [op |-> "create_hybrid_retriever", docs |-> docs, google_api_key |-> g,
                   cohere_api_key |-> c, k |-> k, rerank_top_n |-> rerank_top_n,
                   out |-> create_hybrid_retriever(docs, g, c, k, rerank_top_n, e)]
    /\ UNCHANGED session_vars

\* a query of a retriever the factory returned
CallQuery ==
    /\ call.op = "create_hybrid_retriever"
    /\ call.out.kind = "returned"
    /\ LET r == call.out.value IN
       \E lexical \in TopK(Len(r.docs), r.k), semantic \in TopK(Len(r.docs), r.k) :
          \E got \in Reranked(r, Fused(r, lexical, semantic)) :
             call' = [op |-> "query", retriever |-> r, query |-> Q_why,
                      k |-> call.k, rerank_top_n |-> call.rerank_top_n,
                      lexical |-> lexical, semantic |-> semantic, result |-> got]
    /\ UNCHANGED session_vars

\* the five nearest chunks of a store, its similarity_search(k=5)
Searches(store) ==
    {[kind |-> "found", docs |-> SubSeq(store.docs, 1, Min(5, Len(store.docs)))],
     Failed("ResourceExhausted")}

Stores == {[kind |-> "store", docs |-> d] : d \in ChunkLists}

CallHandleUserQuery ==
    /\ call.op = "none"
    /\ \E vs \in Stores \cup {None}, mode \in Modes,
          pdf_out \in GenerationOutcomes, general_out \in GeneralOutcomes :
          \E searched \in (IF vs = None THEN {Failed("unused")} ELSE Searches(vs)) :
             call' = [op |-> "handle_user_query", vector_store |-> vs,
                      answer_mode |-> mode, searched |-> searched, pdf_out |-> pdf_out,
                      general_out |-> general_out,
                      out |-> handle_user_query(Q_why, vs, searched, pdf_out,
                                                general_out, mode)]
    /\ UNCHANGED session_vars

\* text units as the parsers produce them
U_long ==
    Document(<<"a", "b", " ", "c", "d", "e", " ", "f", "\n", "\n",
               "g", "h", "i", "j", "k", "l">>, [source |-> N_a_pdf, page |-> 1])

U_newline == Document(<<"d", "\n">>, [source |-> N_c_PDF, page |-> 2])

U_repeat ==
    Document(<<"a", "b", " ", "a", "b", " ", "a", "b">>, [source |-> N_d_docx])

U_slide ==
    Document(<<"a", " ", "b", "\n", "c", " ", "d", "\n">>,
             [source |-> N_e_pptx, slide |-> 2])

Units == {U_long, U_newline, U_repeat, U_slide}

UnitLists == {ul \in SeqsUpTo(Units, 2) : Len(ul) = 2 => ul[1] # ul[2]}

\* the splitter as get_text_chunks configures it, and the same splitter with sizes
\* at which these units are cut
SplitterConfigs ==
    {[size |-> chunk_size, overlap |-> chunk_overlap], [size |-> 4, overlap |-> 1],
     [size |-> 5, overlap |-> 2], [size |-> 3, overlap |-> 0]}

CallGetTextChunks ==
    /\ call.op = "none"
    /\ \E documents \in UnitLists, cfg \in SplitterConfigs :
          call' = [op |-> "get_text_chunks", documents |-> documents,
                   size |-> cfg.size, overlap |-> cfg.overlap,
                   result |-> IF cfg.size = chunk_size /\ cfg.overlap = chunk_overlap
                              THEN get_text_chunks(documents)
                              ELSE split_documents(documents, cfg.size, cfg.overlap)]
    /\ UNCHANGED session_vars

FnNext ==
    \/ CallGetTextChunks
    \/ CallProcessUploadedFiles
    \/ CallCreateHybridRetriever
    \/ CallQuery
    \/ CallHandleUserQuery

SpecFn == FnInit /\ [][FnNext]_vars

\* ------------------------------------------------------------ the session's events
Inputs ==
    {<<>>, <<"h", "i">>, <<"H", "e", "l", "l", "o">>, <<" ", "H", "E", "Y", "\n">>,
     <<"h", "i", "?">>, Q_why}

\* what the file uploader can hand to its on_change callback
Uploads == {<<>>, <<F_pdf>>, <<F_docx, F_pptx>>, <<F_pdf_blank>>}

Unused == [kind |-> "unused"]

Found(docs) == [kind |-> "found", docs |-> docs]

SessionGenerations ==
    {Said(Grounded), Said(RefusalPhrase), Failed("ResourceExhausted"),
     Failed("InternalServerError")}

\* the retrievals a session's question meets: nothing relevant, or the ranked chunks
SessionRetrievals(retr) ==
    {<<>>, SubSeq(retr.docs, 1, Min(retr.rerank_top_n, Len(retr.docs)))}

\* what one call of get_rag_response can meet: the retrieval, then the generation
RagOutcomes(retr) ==
    {<<Found(d), g>> : d \in SessionRetrievals(retr), g \in SessionGenerations}
    \cup {<<Failed(e), Unused>> : e \in {"ResourceExhausted", "CohereError"}}

Init ==
    /\ variant \in {"ap", "app"}
    /\ google_api_key \in Keys
    /\ cohere_api_key \in Keys
    /\ chat_history = InitialChat
    /\ retriever = None
    /\ search_mode = "Hybrid"
    /\ uploaded_files_data = <<>>
    /\ selected_document = None
    /\ last = [op |-> "none"]
    /\ call = [op |-> "none"]

\* the file uploader's on_change callback
Upload ==
    /\ KeysOK
    /\ \E uploaded_files \in Uploads, embedding \in EmbeddingOutcomes :
          LET u == handle_file_upload(uploaded_files, uploaded_files_data, retriever,
                                      google_api_key, cohere_api_key, embedding)
          IN /\ embedding # "ok" => u.outcome = "error"
             /\ uploaded_files_data' = u.uploaded_files_data
             /\ retriever' = u.retriever
             /\ last' = [op |-> "upload", uploaded_files |-> uploaded_files,
                         retriever_before |-> retriever, outcome |-> u.outcome,
                         shown |-> u.shown]
    /\ UNCHANGED <<variant, google_api_key, cohere_api_key, chat_history, search_mode,
                   selected_document, call>>

\* the mode radio
SetMode ==
    /\ KeysOK
    /\ \E m \in Modes : search_mode' = m
    /\ UNCHANGED <<variant, google_api_key, cohere_api_key, chat_history, retriever,
                   uploaded_files_data, selected_document, last, call>>

\* the document selectbox, drawn when files are recorded
SelectDocument ==
    /\ KeysOK
    /\ uploaded_files_data # <<>>
    /\ \E d \in {SelectPlaceholder} \cup DictKeys(uploaded_files_data) :
          selected_document' = [kind |-> "str", value |-> d]
    /\ UNCHANGED <<variant, google_api_key, cohere_api_key, chat_history, retriever,
                   search_mode, uploaded_files_data, last, call>>

\* what the session held when the Reset Session button was pressed
ResetFrom ==
    [op |-> "reset", had_retriever |-> HasRetriever(retriever),
     had_files |-> uploaded_files_data # <<>>, had_chat |-> chat_history # InitialChat,
     had_selection |-> selected_document # None]

\* a reset that deletes the chat and the recorded files but not the retriever
Reset_keeps_retriever ==
    /\ KeysOK
    /\ chat_history' = InitialChat
    /\ search_mode' = "Hybrid"
    /\ uploaded_files_data' = <<>>
    /\ selected_document' = None
    /\ last' = ResetFrom
    /\ UNCHANGED <<variant, google_api_key, cohere_api_key, retriever, call>>

\* the Reset Session button: every key but the API keys is deleted and set anew
Reset ==
    /\ KeysOK
    /\ chat_history' = InitialChat
    /\ retriever' = None
    /\ search_mode' = "Hybrid"
    /\ uploaded_files_data' = <<>>
    /\ selected_document' = None
    /\ last' = ResetFrom
    /\ UNCHANGED <<variant, google_api_key, cohere_api_key, call>>

\* an upload is under way with some chunks embedded and others not
PartialIndex ==
    /\ call.op = "handle_file_upload"
    /\ call.pc = "faiss"
    /\ 0 < call.faiss
    /\ call.faiss < Len(call.text_chunks)

\* main appends the user's message, then what its branch appends
AskDone(user_input, first, second, h) ==
    /\ chat_history' = Append(chat_history, Msg("user", user_input)) \o h.appended
    /\ last' = [op |-> "ask", user_input |-> user_input,
                had_retriever |-> HasRetriever(retriever), mode |-> search_mode,
                first |-> first, second |-> second, handled |-> h,
                partial_index |-> PartialIndex]
    /\ UNCHANGED <<variant, google_api_key, cohere_api_key, retriever, search_mode,
                   uploaded_files_data, selected_document, call>>

\* the first call of get_rag_response raised ResourceExhausted
Overloaded(user_input, o) ==
    LET r == get_rag_response(user_input, retriever, google_api_key, search_mode,
                              o[1], o[2])
    IN r.kind = "exception" /\ r.exc = "ResourceExhausted"

\* a chat input, through main
Ask ==
    /\ KeysOK
    /\ Len(chat_history) + 2 <= MaxChat
    /\ \E user_input \in Inputs :
          /\ user_input # <<>>
          /\ \/ /\ IsGreetingInput(user_input)
                /\ AskDone(user_input, <<Unused, Unused>>, <<Unused, Unused>>, ask_greeting)
             \/ /\ ~IsGreetingInput(user_input)
                /\ HasRetriever(retriever)
                /\ variant = "ap"
                /\ \E o1 \in RagOutcomes(retriever) :
                      /\ ~Overloaded(user_input, o1)
                      /\ AskDone(user_input, o1, <<Unused, Unused>>,
                                 ask_documents_ap(user_input, retriever, google_api_key,
                                                  search_mode, o1[1], o1[2], Unused, Unused))
             \/ /\ ~IsGreetingInput(user_input)
                /\ HasRetriever(retriever)
                /\ variant = "ap"
                /\ \E o1 \in RagOutcomes(retriever), o2 \in RagOutcomes(retriever) :
                      /\ Overloaded(user_input, o1)
                      /\ AskDone(user_input, o1, o2,
                                 ask_documents_ap(user_input, retriever, google_api_key,
                                                  search_mode, o1[1], o1[2], o2[1], o2[2]))
             \/ /\ ~IsGreetingInput(user_input)
                /\ HasRetriever(retriever)
                /\ variant = "app"
                /\ \E o1 \in RagOutcomes(retriever) :
                      AskDone(user_input, o1, <<Unused, Unused>>,
                              ask_documents_app(user_input, retriever, google_api_key,
                                                search_mode, o1[1], o1[2]))
             \/ /\ ~IsGreetingInput(user_input)
                /\ ~HasRetriever(retriever)
                /\ \E g \in SessionGenerations :
                      AskDone(user_input, <<Unused, g>>, <<Unused, Unused>>,
                              IF variant = "ap" THEN ask_general_ap(user_input, g)
                              ELSE ask_general_app(user_input, g))

Next ==
    \/ Upload
    \/ SetMode
    \/ SelectDocument
    \/ Reset
    \/ Ask

Spec == Init /\ [][Next]_vars

\* ------------------------------------------------------------ an upload, step by step
(* handle_file_upload and the create_hybrid_retriever it calls, one statement  *)
(* at a time, with the callback's local variables in call; asks and mode       *)
(* changes of the session are let in between any two of its steps.             *)
Frame(pc, uploaded_files, text_chunks, bm25, faiss, exc) ==
    [op |-> "handle_file_upload", pc |-> pc, uploaded_files |-> uploaded_files,
     text_chunks |-> text_chunks, bm25 |-> bm25, faiss |-> faiss, exc |-> exc]

Uploading == call.op = "handle_file_upload"

\* uploaded_files_data = {file.name: file.getvalue() for file in uploaded_files}
UploadBegin ==
    /\ KeysOK
    /\ call.op = "none"
    /\ \E uploaded_files \in Uploads \ {<<>>} :
          /\ uploaded_files_data' = DictOfFiles(uploaded_files, <<>>)
          /\ call' = Frame("chunk", uploaded_files, <<>>, <<>>, 0, "none")
    /\ UNCHANGED <<variant, google_api_key, cohere_api_key, chat_history, retriever,
                   search_mode, selected_document, last>>

\* raw_docs, text_chunks, and the return when there are none
UploadChunk ==
    /\ Uploading
    /\ call.pc = "chunk"
    /\ LET text_chunks == get_text_chunks(process_uploaded_files(call.uploaded_files))
       IN call' = IF text_chunks = <<>>
                  THEN [op |-> "none"]
                  ELSE [call EXCEPT !.pc = "bm25", !.text_chunks = text_chunks]
    /\ UNCHANGED session_vars

\* a lexical index that would enter the session as soon as it is built
BuildLexical_installs_early ==
    /\ Uploading
    /\ call.pc = "bm25"
    /\ call' = [call EXCEPT !.pc = "faiss", !.bm25 = call.text_chunks]
    /\ retriever' = [kind |-> "retriever", docs |-> <<>>, k |-> default_k,
                     rerank_top_n |-> default_rerank_top_n,
                     google_api_key |-> google_api_key,
                     cohere_api_key |-> cohere_api_key]
    /\ UNCHANGED <<variant, google_api_key, cohere_api_key, chat_history, search_mode,
                   uploaded_files_data, selected_document, last>>

\* BM25Retriever.from_documents(docs): the lexical index, in a local variable
BuildLexical ==
    /\ Uploading
    /\ call.pc = "bm25"
    /\ call' = [call EXCEPT !.pc = "faiss", !.bm25 = call.text_chunks]
    /\ UNCHANGED session_vars

\* FAISS.from_documents(docs, embeddings): one more chunk embedded, or the
\* embedding capability raises
BuildSemantic ==
    /\ Uploading
    /\ call.pc = "faiss"
    /\ call.faiss < Len(call.text_chunks)
    /\ \E e \in EmbeddingOutcomes :
          call' = IF e = "ok"
                  THEN [call EXCEPT !.faiss = call.faiss + 1]
                  ELSE [call EXCEPT !.pc = "except", !.exc = e]
    /\ UNCHANGED session_vars

\* the ensemble, the re-ranker and the compression retriever are put together and
\* st.session_state.retriever is assigned what create_hybrid_retriever returns
UploadInstall ==
    /\ Uploading
    /\ call.pc = "faiss"
    /\ call.faiss = Len(call.text_chunks)
    /\ retriever' = create_hybrid_retriever(call.bm25, google_api_key, cohere_api_key,
                                            default_k, default_rerank_top_n, "ok").value
    /\ call' = [op |-> "none"]
    /\ UNCHANGED <<variant, google_api_key, cohere_api_key, chat_history, search_mode,
                   uploaded_files_data, selected_document, last>>

\* except Exception: the retriever and the recorded files are cleared
UploadExcept ==
    /\ Uploading
    /\ call.pc = "except"
    /\ retriever' = None
    /\ uploaded_files_data' = <<>>
    /\ call' = [op |-> "none"]
    /\ UNCHANGED <<variant, google_api_key, cohere_api_key, chat_history, search_mode,
                   selected_document, last>>

StepsInit ==
    /\ Init
    /\ KeysOK

StepsNext ==
    \/ UploadBegin
    \/ UploadChunk
    \/ BuildLexical
    \/ BuildSemantic
    \/ UploadInstall
    \/ UploadExcept
    \/ SetMode
    \/ Ask

SpecSteps == StepsInit /\ [][StepsNext]_vars

\* ------------------------------------------------------------ claims
DictValues(d) == [i \in 1..Len(d) |-> d[i].value]

\* the last event was a question that is no greeting, asked without a retriever
AskedWithoutRetriever ==
    /\ last.op = "ask"
    /\ ~last.had_retriever
    /\ ~IsGreetingInput(last.user_input)

\* C1 as stated: a non-greeting question asked while no retriever is installed is
\* answered by the fixed upload-your-documents guidance, and neither retrieval nor
\* generation is invoked.
C1_GuidanceWithoutRetriever ==
    AskedWithoutRetriever =>
        /\ last.handled.appended = <<Msg("ai", NotInitializedText)>>
        /\ last.handled.retrievals = 0
        /\ last.handled.generations = 0

\* C1 amended: a non-greeting question asked while no retriever is installed makes
\* no retrieval and no call of get_rag_response; it is sent once to the generation
\* capability, whose text, when it answers, is the reply.
C1_GeneralQuestionWithoutRetriever ==
    AskedWithoutRetriever =>
        /\ last.handled.retrievals = 0
        /\ last.handled.rag_modes = <<>>
        /\ last.handled.generations = 1
        /\ last.handled.escaped = "none"
        /\ last.first[2].kind = "said" =>
              last.handled.appended = <<Msg("ai", last.first[2].text)>>

C1_Witness ==
    /\ AskedWithoutRetriever
    /\ last.first[2].kind = "said"
    /\ last.handled.generations = 1
    /\ uploaded_files_data # <<>>

\* the last event was a question that went to get_rag_response
AskedDocuments ==
    /\ last.op = "ask"
    /\ last.had_retriever
    /\ ~IsGreetingInput(last.user_input)

\* C2 as stated: when the generation capability fails with ResourceExhausted on the
\* first attempt of an ask in Hybrid mode, get_rag_response is called exactly once
\* more, in PDF-Only mode, and if that call succeeds the AI message appended is the
\* degraded-mode notice followed by its answer text.
C2_OverloadRetriesOnceInPdfOnly ==
    (AskedDocuments /\ last.mode = "Hybrid"
        /\ last.first[1].kind = "found" /\ last.first[2] = Failed("ResourceExhausted")) =>
        /\ last.handled.rag_modes = <<"Hybrid", "PDF-Only">>
        /\ (last.second[1].kind = "found" /\ last.second[2].kind = "said") =>
              last.handled.appended =
                  <<Msg("ai", WarningMessage \o last.second[2].text)>>

\* the retry of the last ask met an overload too
RetryOverloaded ==
    \/ last.second[1] = Failed("ResourceExhausted")
    \/ last.second[1].kind = "found" /\ last.second[2] = Failed("ResourceExhausted")

\* C3 as stated: if the degraded retry of an ask fails with a second overload, the
\* AI reply is the fixed apology and no exception leaves main.
C3_SecondOverloadYieldsApology ==
    (AskedDocuments /\ RetryOverloaded) =>
        /\ last.handled.appended = <<Msg("ai", HighTrafficText)>>
        /\ last.handled.escaped = "none"

\* C4: an input that is "hi", "hello" or "hey" up to case gets the canned greeting,
\* with no retrieval, no call of get_rag_response and no generation, whether or not
\* a retriever is installed and in either mode.
C4_GreetingShortCircuits ==
    (last.op = "ask" /\ lower(last.user_input) \in greetings) =>
        /\ last.handled.appended = <<Msg("ai", GreetingReply)>>
        /\ last.handled.rag_modes = <<>>
        /\ last.handled.retrievals = 0
        /\ last.handled.generations = 0
        /\ last.handled.escaped = "none"

C4_Witness ==
    /\ last.op = "ask"
    /\ last.user_input = <<"H", "e", "l", "l", "o">>
    /\ last.had_retriever
    /\ last.mode = "PDF-Only"
    /\ last.handled.generations = 0

\* handle_user_query was called in a mode, found chunks and got a text from the chain
QueriedIn(mode) ==
    /\ call.op = "handle_user_query"
    /\ call.answer_mode = mode
    /\ call.vector_store # None
    /\ call.searched.kind = "found"
    /\ call.pdf_out.kind = "said"

\* C5 as stated: in PDF-Only mode a response that is the literal refusal phrase is
\* returned unchanged with an empty source list, and any other response is returned
\* with the retrieved chunks as its sources.
C5_RefusalPhraseDecidesSources ==
    QueriedIn("PDF-Only") =>
        IF call.pdf_out.text = RefusalPhrase
        THEN call.out = Answer(RefusalPhrase, <<>>, 1, 1)
        ELSE call.out.source_documents = call.searched.docs

\* C5 amended: in PDF-Only mode a response that contains "couldn't find this
\* information" is returned unchanged with an empty source list, and a response
\* that does not contain it is returned with the retrieved chunks as its sources.
C5_RefusalMarkerDecidesSources ==
    QueriedIn("PDF-Only") =>
        /\ call.out.kind = "answer"
        /\ call.out.output_text = call.pdf_out.text
        /\ call.out.source_documents =
              IF Contains(call.pdf_out.text, RefusalMarker) THEN <<>>
              ELSE call.searched.docs

C5_Witness ==
    /\ QueriedIn("PDF-Only")
    /\ call.pdf_out.text = Reworded
    /\ call.searched.docs # <<>>
    /\ call.out.source_documents = <<>>

\* C6 as stated: in Hybrid mode, whenever retrieval returned at least one chunk, the
\* result carries those chunks as its sources, whatever the model answered.
C6_HybridAlwaysCarriesSources ==
    (QueriedIn("Hybrid") /\ call.searched.docs # <<>> /\ call.out.kind = "answer") =>
        call.out.source_documents = call.searched.docs

\* C6 amended: in Hybrid mode with at least one retrieved chunk, the result carries
\* those chunks as its sources when the document-grounded answer does not contain
\* "couldn't find this information"; when it does, the result is the model's
\* general-knowledge answer followed by the disclaimer, with an empty source list.
C6_HybridSourcesUnlessFallback ==
    (QueriedIn("Hybrid") /\ call.searched.docs # <<>> /\ call.out.kind = "answer") =>
        IF Contains(call.pdf_out.text, RefusalMarker)
        THEN /\ call.out.source_documents = <<>>
             /\ call.out.output_text = call.general_out.text \o Disclaimer
             /\ call.out.generations = 2
        ELSE /\ call.out.source_documents = call.searched.docs
             /\ call.out.output_text = call.pdf_out.text
             /\ call.out.generations = 1

C6_Witness ==
    /\ QueriedIn("Hybrid")
    /\ call.searched.docs # <<>>
    /\ call.pdf_out.text = RefusalPhrase
    /\ call.out.kind = "answer"
    /\ call.out.source_documents = <<>>

\* C7 as stated: if an upload's index build fails (no chunks, or the build raises),
\* the retriever installed before the upload is still installed afterwards.
C7_FailedBuildKeepsRetriever ==
    (last.op = "upload" /\ last.outcome \in {"no_text", "error"}) =>
        retriever = last.retriever_before

\* C7 amended: after an upload that extracted no text the retriever installed before
\* it is still installed; after an upload whose index build raised, the session has
\* no retriever and no recorded files; asks use whichever retriever is installed.
C7_NoTextKeepsErrorClears ==
    /\ (last.op = "upload" /\ last.outcome = "no_text") =>
          retriever = last.retriever_before
    /\ (last.op = "upload" /\ last.outcome = "error") =>
          retriever = None /\ uploaded_files_data = <<>>
    /\ last.op = "ask" => last.had_retriever = HasRetriever(retriever)

C7_Witness ==
    /\ last.op = "upload"
    /\ last.outcome = "error"
    /\ HasRetriever(last.retriever_before)
    /\ ~HasRetriever(retriever)

\* C8 as stated: the installed retriever, if any, was built from the chunks of the
\* one batch whose files are recorded in uploaded_files_data.
C8_RetrieverIsOfRecordedBatch ==
    HasRetriever(retriever) =>
        retriever.docs =
            get_text_chunks(process_uploaded_files(DictValues(uploaded_files_data)))

\* the units the claim gives a file: all of them when its extension is supported and
\* it parses, none otherwise
RECURSIVE UnitsOfParsedFiles(_)
UnitsOfParsedFiles(files) ==
    IF files = <<>> THEN <<>>
    ELSE (IF Head(files) = None THEN <<>>
          ELSE IF Head(files).corruptAt # 0 THEN <<>>
          ELSE ParseOne(Head(files)))
         \o UnitsOfParsedFiles(Tail(files))

\* C9 as stated: process_uploaded_files returns, in file order, the units of exactly
\* the files that have a supported extension and parse; a file that fails to parse
\* contributes no units.
C9_FailedFileContributesNothing ==
    call.op = "process_uploaded_files" =>
        call.result = UnitsOfParsedFiles(call.uploaded_files)

\* C10: create_hybrid_retriever given no chunks or a missing key raises before any
\* index or capability is touched and returns no retriever, and every retriever
\* that is queried was built from chunks and both keys.
C10_InvalidInputsFailBeforeBuild ==
    /\ (call.op = "create_hybrid_retriever"
           /\ (call.docs = <<>> \/ ~Truthy(call.google_api_key)
                  \/ ~Truthy(call.cohere_api_key))) =>
          call.out = Raised("ValueError", <<>>)
    /\ call.op = "query" =>
          /\ call.retriever.docs # <<>>
          /\ Truthy(call.retriever.google_api_key)
          /\ Truthy(call.retriever.cohere_api_key)

C10_Witness ==
    /\ call.op = "create_hybrid_retriever"
    /\ call.docs # <<>>
    /\ Truthy(call.google_api_key)
    /\ ~Truthy(call.cohere_api_key)
    /\ call.out.kind = "raised"

\* C11 as stated: if retrieval fails during an ask, whatever the error (a quota
\* error included), get_rag_response is called once, no degraded retry is started,
\* the generation capability is not asked, no AI message is appended and the failure
\* leaves main to the caller.
C11_RetrievalFailureIsReported ==
    (AskedDocuments /\ last.first[1].kind = "failed") =>
        /\ last.handled.rag_modes = <<last.mode>>
        /\ last.handled.generations = 0
        /\ last.handled.appended = <<>>
        /\ last.handled.escaped = last.first[1].exc

\* the generation capability failed, with an error that is no overload, in the last ask
GenerationFailedOther ==
    /\ last.op = "ask"
    /\ ~IsGreetingInput(last.user_input)
    /\ last.first[2].kind = "failed"
    /\ last.first[2].exc # "ResourceExhausted"

\* C12 as stated: when the generation capability fails with an error other than
\* overload, with or without a retriever, no retry is made, the AI reply is the fixed
\* apology, no exception leaves main and st.error shows no raw error text.
C12_OtherFailureYieldsApology ==
    GenerationFailedOther =>
        /\ Len(last.handled.rag_modes) <= 1
        /\ last.handled.generations = 1
        /\ last.handled.appended = <<Msg("ai", HighTrafficText)>>
        /\ last.handled.escaped = "none"
        /\ last.handled.shown = <<>>

\* what an ask of a session that was just started appends after the user's message
FreshAskAppends(user_input, gen_out) ==
    IF IsGreetingInput(user_input) THEN <<Msg("ai", GreetingReply)>>
    ELSE IF gen_out.kind = "said" THEN <<Msg("ai", gen_out.text)>>
    ELSE IF gen_out.exc = "ResourceExhausted" /\ variant = "ap"
    THEN <<Msg("ai", HighTrafficText)>>
    ELSE <<>>

\* C13: after a reset the session has no retriever, no recorded files, no selected
\* document and only the welcome message in its chat history; the reset leaves the
\* API keys as they were; and an ask that follows a reset uses no retriever and
\* leaves the chat history an ask of a fresh session leaves.
C13_ResetRestoresFreshSession ==
    /\ [](last.op = "reset" =>
            /\ retriever = None
            /\ uploaded_files_data = <<>>
            /\ selected_document = None
            /\ chat_history = InitialChat)
    /\ [][last'.op = "reset" =>
            /\ google_api_key' = google_api_key
            /\ cohere_api_key' = cohere_api_key]_vars
    /\ [][(last.op = "reset" /\ last'.op = "ask") =>
            /\ ~last'.had_retriever
            /\ last'.handled.rag_modes = <<>>
            /\ last'.handled.retrievals = 0
            /\ chat_history' =
                  <<Msg("ai", WelcomeText), Msg("user", last'.user_input)>>
                  \o FreshAskAppends(last'.user_input, last'.first[2])]_vars

C13_Witness ==
    /\ last.op = "reset"
    /\ last.had_retriever
    /\ last.had_files
    /\ last.had_chat
    /\ last.had_selection
    /\ ~HasRetriever(retriever)

\* the retrievers create_hybrid_retriever returns for the chunks of a whole batch
CompleteRetrievers ==
    {[kind |-> "retriever", docs |-> get_text_chunks(process_uploaded_files(u)),
      k |-> default_k, rerank_top_n |-> default_rerank_top_n,
      google_api_key |-> google_api_key, cohere_api_key |-> cohere_api_key] :
        u \in Uploads}

\* C14: whatever asks are let in between the steps of an upload, the session's
\* retriever is none or a retriever over all the chunks of a batch, and it changes
\* only to none or to the new retriever once the lexical index holds every chunk and
\* every chunk is embedded in the semantic index.
C14_NoPartialIndexObserved ==
    /\ [](HasRetriever(retriever) =>
            retriever \in CompleteRetrievers /\ retriever.docs # <<>>)
    /\ [][retriever' # retriever =>
            \/ retriever' = None
            \/ /\ Uploading
               /\ call.bm25 = call.text_chunks
               /\ call.faiss = Len(call.text_chunks)
               /\ retriever'.docs = call.text_chunks]_vars

\* an ask made while one of two chunks was embedded, answered with the previous
\* retriever
C14_Witness ==
    /\ last.op = "ask"
    /\ last.partial_index
    /\ last.had_retriever
    /\ last.handled.retrievals >= 1

\* C15: a query of the retriever create_hybrid_retriever returned for k and
\* rerank_top_n returns at most rerank_top_n chunks, each of them one of the fused
\* candidates, which are at most k chunks of the lexical index and at most k chunks
\* of the semantic index.
C15_QueryWithinTopNOfCandidates ==
    call.op = "query" =>
        /\ Len(call.result) <= call.rerank_top_n
        /\ Cardinality(call.lexical) <= call.k
        /\ Cardinality(call.semantic) <= call.k
        /\ \A i \in 1..Len(call.result) :
              \E j \in call.lexical \cup call.semantic :
                 call.result[i] = call.retriever.docs[j]

\* five chunks indexed, the default four returned
C15_Witness ==
    /\ call.op = "query"
    /\ call.rerank_top_n = default_rerank_top_n
    /\ call.k = default_k
    /\ Len(call.retriever.docs) = 5
    /\ Len(call.result) = 4

\* the contents of the chunks of a result that carry a unit's metadata, in order
ChunkTextsOf(result, unit) ==
    LET own == SelectSeq(result, LAMBDA c : c.metadata = unit.metadata)
    IN [i \in 1..Len(own) |-> own[i].page_content]

\* the overlaps a chunk can have with its predecessor: a suffix of the one that is a
\* prefix of the other, no longer than the configured overlap
Overlaps(prev, chunk, overlap) ==
    {n \in 0..Min(overlap, Min(Len(prev), Len(chunk))) :
        SubSeq(prev, Len(prev) - n + 1, Len(prev)) = SubSeq(chunk, 1, n)}

\* the texts got by concatenating chunks 1..n, each without its overlap
RECURSIVE Reconstructions(_, _, _)
Reconstructions(texts, n, overlap) ==
    IF n = 0 THEN {<<>>}
    ELSE IF n = 1 THEN {texts[1]}
    ELSE {r \o SubSeq(texts[n], m + 1, Len(texts[n])) :
            r \in Reconstructions(texts, n - 1, overlap),
            m \in Overlaps(texts[n - 1], texts[n], overlap)}

NonWhitespace(text) == SelectSeq(text, LAMBDA c : c \notin Whitespace)

\* C16 as stated: the chunks of a unit, each without its overlap with its
\* predecessor, concatenate to exactly the unit's content.
C16_ChunksReconstructUnit ==
    call.op = "get_text_chunks" =>
        \A i \in 1..Len(call.documents) :
           LET texts == ChunkTextsOf(call.result, call.documents[i])
           IN call.documents[i].page_content
                 \in Reconstructions(texts, Len(texts), call.overlap)

\* C16 amended: the chunks of a unit, each without its overlap with its predecessor,
\* concatenate to the unit's content up to white space: no character that is not
\* white space is lost, added or moved.
C16_ChunksReconstructUpToWhitespace ==
    call.op = "get_text_chunks" =>
        \A i \in 1..Len(call.documents) :
           LET texts == ChunkTextsOf(call.result, call.documents[i])
           IN NonWhitespace(call.documents[i].page_content)
                 \in {NonWhitespace(r) :
                        r \in Reconstructions(texts, Len(texts), call.overlap)}

\* a unit cut into chunks that overlap, with white space stripped at the cuts
C16_Witness ==
    /\ call.op = "get_text_chunks"
    /\ call.documents = <<U_long>>
    /\ call.size = 4
    /\ Len(call.result) = 5
    /\ call.result[4].page_content = <<"g", "h", "i">>
    /\ call.result[5].page_content = <<"i", "j", "k", "l">>

\* the files of a call that are no None entries
RealFiles(files) == {files[i] : i \in {j \in 1..Len(files) : files[j] # None}}

\* the texts of the paragraphs of a DOCX that are not empty
NonEmptyParagraphs(file) ==
    SelectSeq([i \in 1..Len(file.parts) |-> file.parts[i][1].text], LAMBDA t : t # <<>>)

\* a unit is what its metadata says: page n of a PDF of that name, slide n of a PPTX
\* of that name, or the joined paragraphs of a DOCX of that name
UnitIsOfItsPosition(u, files) ==
    \E f \in RealFiles(files) :
       /\ f.name = u.metadata.source
       /\ IF "page" \in DOMAIN u.metadata
          THEN /\ DOMAIN u.metadata = {"source", "page"}
               /\ u.metadata.page \in 1..Len(f.parts)
               /\ u.page_content = f.parts[u.metadata.page][1].text
          ELSE IF "slide" \in DOMAIN u.metadata
          THEN /\ DOMAIN u.metadata = {"source", "slide"}
               /\ u.metadata.slide \in 1..Len(f.parts)
               /\ u.page_content = slide_text_of(f.parts[u.metadata.slide])
          ELSE /\ DOMAIN u.metadata = {"source"}
               /\ u.page_content = Join(<<"\n">>, NonEmptyParagraphs(f))

PositionOf(u) ==
    IF "page" \in DOMAIN u.metadata THEN u.metadata.page
    ELSE IF "slide" \in DOMAIN u.metadata THEN u.metadata.slide
    ELSE 0

\* C17: every unit of a PDF or PPTX carries the 1-based place of its page or slide
\* in the file, pages and slides without text being skipped without renumbering;
\* the units of one file come in ascending order of position; a DOCX yields at most
\* one unit, without position, holding its non-empty paragraphs joined by "\n".
C17_UnitsCarryPagePositions ==
    call.op = "process_uploaded_files" =>
        /\ \A i \in 1..Len(call.result) :
              UnitIsOfItsPosition(call.result[i], call.uploaded_files)
        /\ Len(call.uploaded_files) = 1 =>
              /\ \A i, j \in 1..Len(call.result) :
                    i < j => PositionOf(call.result[i]) < PositionOf(call.result[j])
              /\ \A i \in 1..Len(call.result) :
                    PositionOf(call.result[i]) = 0 => Len(call.result) = 1

\* a PDF whose first page is empty: its one unit is page 2
C17_Witness ==
    /\ call.op = "process_uploaded_files"
    /\ call.uploaded_files = <<F_pdf_upper>>
    /\ Len(call.result) = 1
    /\ call.result[1].metadata.page = 2

UnitPlaceOf(chunk, documents) ==
    LET places == {i \in 1..Len(documents) : documents[i].metadata = chunk.metadata}
    IN IF places = {} THEN 0 ELSE CHOOSE i \in places : \A j \in places : i <= j

\* C19: every chunk is a piece of the content of the one input unit whose source
\* and position metadata it carries unchanged, is no longer than the configured
\* maximum, and the chunks come unit by unit in input order; no units, no chunks.
C19_ChunksStayWithinUnits ==
    call.op = "get_text_chunks" =>
        /\ \A i \in 1..Len(call.result) :
              LET place == UnitPlaceOf(call.result[i], call.documents) IN
              /\ place # 0
              /\ Contains(call.documents[place].page_content, call.result[i].page_content)
              /\ Len(call.result[i].page_content) <= call.size
              /\ call.result[i].page_content # <<>>
        /\ \A i, j \in 1..Len(call.result) :
              i < j => UnitPlaceOf(call.result[i], call.documents)
                          <= UnitPlaceOf(call.result[j], call.documents)
        /\ call.documents = <<>> => call.result = <<>>

\* two units cut at four characters: five chunks of the first, then one of the second
C19_Witness ==
    /\ call.op = "get_text_chunks"
    /\ call.documents = <<U_long, U_newline>>
    /\ call.size = 4
    /\ Len(call.result) = 6
    /\ Len(call.result[5].page_content) = 4
    /\ call.result[6].metadata = U_newline.metadata

\* s is t or a beginning of t
IsPrefix(s, t) == Len(s) <= Len(t) /\ SubSeq(t, 1, Len(s)) = s

\* C20 as stated: between resets the chat history only grows; it starts with the
\* welcome message and then alternates user message, AI message; and every handled
\* input appends exactly one user message followed by exactly one AI message, on
\* every path.
C20_HistoryAlternates ==
    /\ [][last'.op # "reset" => IsPrefix(chat_history, chat_history')]_vars
    /\ [](/\ chat_history # <<>>
          /\ chat_history[1] = Msg("ai", WelcomeText)
          /\ \A i \in 2..Len(chat_history) :
                chat_history[i].role = (IF i % 2 = 0 THEN "user" ELSE "ai"))
    /\ [](last.op = "ask" =>
            /\ Len(last.handled.appended) = 1
            /\ last.handled.appended[1].role = "ai"
            /\ chat_history[Len(chat_history) - 1] = Msg("user", last.user_input)
            /\ chat_history[Len(chat_history)] = last.handled.appended[1])

====
